---- MODULE Spec2Model ----
(***************************************************************************)
(* Model of the fetch-and-cache subsystem of malsentinel:                  *)
(*   src/src/metadata_cache.py  api_request (with its backoff decorator),  *)
(*                              MetadataCache.request_data / refresh_data, *)
(*                              is_404, has_data, request_metadata         *)
(*   src/main.py                update_metadata                            *)
(* One physical HTTP attempt of api_request is one step.  The invocations  *)
(* of the decorated api_request that are in progress form a call stack;    *)
(* the server's answer to every attempt is chosen nondeterministically.    *)
(***************************************************************************)
EXTENDS Integers, Sequences, FiniteSets, TLC

\* ------------------------------------------------------------------ bounds
\* request_metadata calls in one behaviour
MaxCalls == 2
\* physical requests followed within one api_request call made for
\* request_metadata (SpecExec follows every call to its end)
MaxAttempts == 3
\* saturation of the observers that count events of one api_request call
RunCap == 7
AltCap == 4
\* saturation of the count of 429 answers of one api_request call
RateCap == 4
\* entries read_linear_history() yields to update_metadata
MaxHistory == 1
\* physical requests of one api_request call whose events are kept
TraceLen == 2

\* ------------------------------------------------------- program constants
\* backoff.on_exception(..., max_tries=3)
MaxTries == 3
\* if recursed_times > 2: resp.raise_for_status()
AltTitlesLimit == 2
\* recursed_times < 5
GenericLimit == 5
\* time.sleep(60)
Cooldown == 60

Min(a, b) == IF a < b THEN a ELSE b

\* --------------------------------------------------------------------- URLs
\* A URL is the endpoint for (etype, mal_id) and its query string, held as the
\* segments the code tells apart: what precedes the alternative_titles field,
\* the field with its comma, and what follows; pad is surrounding whitespace.
QueryHead == "?nsfw=true&fields=id,title,main_picture,"
AltTitles == "alternative_titles,"
QueryTail == "start_date,end_date,synopsis,...,recommendations,studios,statistics"

\* MetadataCache.BASE_URL.format(etype=entry_type, mal_id=id_)
BASE_URL(etype, mal_id) ==
    [etype |-> etype, mal_id |-> mal_id,
     query |-> <<QueryHead, AltTitles, QueryTail>>, pad |-> FALSE]

\* "alternative_titles," in url
HasAltTitles(url) == \E i \in 1..Len(url.query) : url.query[i] = AltTitles

\* url.replace("alternative_titles,", "")
StripAltTitles(url) ==
    [url EXCEPT !.query = SelectSeq(url.query, LAMBDA f : f # AltTitles)]

\* URLCache.preprocess_url
preprocess_url(url) == [url EXCEPT !.pad = FALSE]

EntryTypes == {"anime", "manga"}
\* entry types a caller may pass, one of them not accepted
InputTypes == EntryTypes \cup {"novel"}
\* ids of the entry references handed to request_metadata
Ids == {1}

\* ------------------------------------------------------------ server answers
ErrorStatuses == {400, 401, 404, 429, 500}

\* decoded JSON bodies of a 200 answer
BodyFull(url) == [id |-> url.mal_id, title |-> "X"]
BodyIdOnly(url) == [id |-> url.mal_id]
BodyEmpty == << >>
Bodies(url) == {BodyFull(url), BodyIdOnly(url), BodyEmpty}

\* what session.session.get(url) yields: a response, or a connection-level
\* exception without any response
Replies(url) ==
    {[conn |-> TRUE, status |-> 200, json |-> b] : b \in Bodies(url)}
    \cup {[conn |-> TRUE, status |-> s, json |-> BodyEmpty] : s \in ErrorStatuses}
    \cup {[conn |-> FALSE, status |-> 0, json |-> BodyEmpty]}

HTTPError(s) == [type |-> "HTTPError", has_response |-> TRUE, status |-> s]
ConnectionError == [type |-> "ConnectionError", has_response |-> FALSE, status |-> 0]


\* ------------------------------------------------------------------- state
VARIABLES
    store,      \* summary_cache: canonical URL -> Summary (a dict: one per key)
    now,        \* the clock read by datetime.now()
    pc,         \* where the caller of api_request waits: "idle" when none runs
    req,        \* arguments of the request_metadata call in progress / last made
    stack,      \* invocations of the decorated api_request in progress
    outcome,    \* how the last finished api_request call ended
    result,     \* how the last finished request_metadata call ended
    nCalls,     \* calls started so far in this behaviour
    attempts,   \* physical requests of the api_request call made for the current
                \* request_metadata
    execCalls,  \* observer: api_request calls made by the current request_metadata
    puts,       \* observer: summary_cache.put calls of the current request_metadata
    prev,       \* observer: the request_metadata call completed before the current
    store0,     \* observer: the store as the current request_metadata found it
    trace,      \* observer: the first TraceLen physical requests of the current
                \* api_request call, while it has made no more than those
    run,        \* observer: how many requests the current call made, while every
                \* one of them was answered alike
    nAlt,       \* observer: alternative-titles recoveries of the current call
    last,       \* observer: what the latest step of api_request did
    n429,       \* observer: physical requests of the current call answered 429
    sent,       \* observer: the URL of the latest physical request made for the
                \* current request_metadata, none yet: << >>
    batch       \* update_metadata: its state and the entry references left

progVars == <<store, now, pc, req, stack, outcome, result, nCalls, attempts>>
callObs == <<execCalls, puts, prev, store0>>
execObs == <<trace, run, nAlt, last>>
vars == <<progVars, callObs, execObs, n429, sent, batch>>

\* ------------------------------------------------------ Summary predicates
Summary(url, metadata, timestamp) ==
    [url |-> url, data |-> << >>, metadata |-> metadata, timestamp |-> timestamp]

\* an error marker that carries the reason too
ErrorMarkerReason(s) == [error |-> s, reason |-> "HTTPError"]

\* metadata={"error": ex.response.status_code}
ErrorMarker(s) == [error |-> s]

\* is_404 comparing the status with the string "404": never equal
is_404_str(summary) == FALSE

is_404(summary) ==
    IF "error" \in DOMAIN summary.metadata
    THEN summary.metadata["error"] = 404
    ELSE FALSE

\* has_data asking for only one of the keys
has_data_any(summary) == \E k \in {"title", "id"} : k \in DOMAIN summary.metadata

has_data(summary) == \A k \in {"title", "id"} : k \in DOMAIN summary.metadata

\* ------------------------------------------------------------- api_request
Frame(url, recursed_times) ==
    [url |-> url, recursed_times |-> recursed_times, tries |-> 1]

Raise(ex, refresh, cooldown) ==
    [do |-> "raise", ex |-> ex, url |-> BASE_URL("anime", 0), recursed_times |-> 0,
     json |-> BodyEmpty, refresh |-> refresh, cooldown |-> cooldown, branch |-> "raise"]
Recurse(url, recursed_times, cooldown, branch) ==
    [do |-> "recurse", ex |-> ConnectionError, url |-> url,
     recursed_times |-> recursed_times, json |-> BodyEmpty, refresh |-> FALSE,
     cooldown |-> cooldown, branch |-> branch]
Return(json) ==
    [do |-> "return", ex |-> ConnectionError, url |-> BASE_URL("anime", 0),
     recursed_times |-> 0, json |-> json, refresh |-> FALSE, cooldown |-> 0,
     branch |-> "return"]

\* resp.raise_for_status() raises for a 4xx or 5xx status
RaisesForStatus(status) == status >= 400 /\ status < 600

\* resp.status_code == 400 and "alternative_titles," in url
AltTitlesCase(url, status) == status = 400 /\ HasAltTitles(url)

\* a generic retry without the limit on recursed_times
GenericRetryUnlimited(recursed_times, status) ==
    status >= 400 /\ status \notin {404}

\* recursed_times < 5 and resp.status_code >= 400 and resp.status_code not in (404,)
GenericRetry(recursed_times, status) ==
    recursed_times < GenericLimit /\ status >= 400 /\ status \notin {404}

\* a 401 that raises without refreshing the token
On401NoRefresh(status) == Raise(HTTPError(status), FALSE, 0)

\* refresh_token(); resp.raise_for_status()
On401(status) == Raise(HTTPError(status), TRUE, 0)

\* the body of api_request run on one answer of session.session.get(url)
api_request(url, recursed_times, reply) ==
    IF ~reply.conn THEN Raise(ConnectionError, FALSE, 0)
    ELSE LET status == reply.status IN
        IF AltTitlesCase(url, status)
        THEN IF recursed_times > AltTitlesLimit
             THEN Raise(HTTPError(status), FALSE, 0)
             ELSE Recurse(StripAltTitles(url), recursed_times + 1, 0, "alt")
        ELSE IF status = 401 THEN On401(status)
        ELSE IF status = 429 THEN Raise(HTTPError(status), FALSE, Cooldown)
        ELSE IF GenericRetry(recursed_times, status)
             THEN Recurse(url, recursed_times + 1, Cooldown, "generic")
        ELSE IF RaisesForStatus(status)
             THEN Raise(HTTPError(status), FALSE, 0)
             ELSE Return(reply.json)

\* a decorator that gives up one try later
RECURSIVE on_exception_late(_)
on_exception_late(stk) ==
    IF stk = << >> THEN << >>
    ELSE IF stk[Len(stk)].tries = MaxTries + 1
         THEN on_exception_late(SubSeq(stk, 1, Len(stk) - 1))
         ELSE [stk EXCEPT ![Len(stk)].tries = @ + 1]

\* @backoff.on_exception(..., RequestException, max_tries=3) around every
\* invocation: an exception leaving the body of the top invocation re-runs that
\* invocation with its own arguments unless it was its last try; then it
\* leaves the invocation and reaches the invocation that called it.
RECURSIVE on_exception(_)
on_exception(stk) ==
    IF stk = << >> THEN << >>
    ELSE IF stk[Len(stk)].tries = MaxTries
         THEN on_exception(SubSeq(stk, 1, Len(stk) - 1))
         ELSE [stk EXCEPT ![Len(stk)].tries = @ + 1]


\* ------------------------------------------------------------ MetadataCache
in_cache(cache, uurl) == uurl \in DOMAIN cache

\* summary_cache.put(uurl, summary)
put(cache, uurl, summary) ==
    [u \in DOMAIN cache \cup {uurl} |-> IF u = uurl THEN summary ELSE cache[u]]

\* a request_data that turns an exception without a response into a Summary
request_data_lenient(uurl, ended, timestamp) ==
    [raised |-> FALSE,
     summary |-> Summary(uurl,
                         IF ended.kind = "json" THEN ended.json
                         ELSE ErrorMarker(ended.ex.status), timestamp)]

\* MetadataCache.request_data on the way api_request ended: a Summary, or the
\* AttributeError of ex.response.text when the exception carries no response
request_data(uurl, ended, timestamp) ==
    IF ended.kind = "json"
    THEN [raised |-> FALSE, summary |-> Summary(uurl, ended.json, timestamp)]
    ELSE IF ended.ex.has_response
         THEN [raised |-> FALSE,
               summary |-> Summary(uurl, ErrorMarker(ended.ex.status), timestamp)]
         ELSE [raised |-> TRUE, summary |-> Summary(uurl, BodyEmpty, timestamp)]

\* an else in place of the elif: every call without rerequest_failed refreshes
ModeElseRefresh(rerequest_failed, force_rerequest) ==
    IF rerequest_failed THEN "rerequest_failed" ELSE "force"

\* if rerequest_failed: ... elif force_rerequest: ... (falls to the final get)
Mode(rerequest_failed, force_rerequest) ==
    IF rerequest_failed THEN "rerequest_failed"
    ELSE IF force_rerequest THEN "force"
    ELSE "default"

\* a re-request of every entry without data, the 404 ones too
ShouldRerequestNo404(sdata) == ~has_data(sdata)

\* if not has_data(sdata) and not is_404(sdata)
ShouldRerequest(sdata) == ~has_data(sdata) /\ ~is_404(sdata)

\* URLCache.get: a hit is served from the store
GetHits(cache, uurl) == in_cache(cache, uurl)

\* -------------------------------------------------------------------- Init
NoCall ==
    [made |-> FALSE, req |-> [id |-> 0, etype |-> "", rerequest_failed |-> FALSE,
                              force_rerequest |-> FALSE],
     result |-> [kind |-> "none"], execCalls |-> 0, puts |-> 0]

NoEvent ==
    [branch |-> "none", status |-> 0, recursed_times |-> 0, alts |-> 0,
     cooldown |-> 0, hadAlt |-> FALSE, stripped |-> TRUE]

NoBatch == [state |-> "none", request_failed |-> FALSE, todo |-> << >>]

NoTrace == [open |-> TRUE, events |-> << >>]
NoRun == [alike |-> TRUE, status |-> 0, count |-> 0]

Init ==
    /\ store = [u \in {} |-> 0]
    /\ now = 0
    /\ pc = "idle"
    /\ req = NoCall.req
    /\ stack = << >>
    /\ outcome = [kind |-> "none"]
    /\ result = [kind |-> "none"]
    /\ nCalls = 0
    /\ attempts = 0
    /\ execCalls = 0
    /\ puts = 0
    /\ prev = NoCall
    /\ store0 = [u \in {} |-> 0]
    /\ trace = NoTrace
    /\ run = NoRun
    /\ nAlt = 0
    /\ last = NoEvent
    /\ n429 = 0
    /\ sent = << >>
    /\ batch = NoBatch

\* entering api_request(session, url): one invocation, nothing requested yet
EnterApiRequest(url) ==
    /\ stack' = << Frame(url, 0) >>
    /\ outcome' = [kind |-> "none"]
    /\ attempts' = 0
    /\ trace' = NoTrace
    /\ run' = NoRun
    /\ nAlt' = 0
    /\ last' = NoEvent
    /\ n429' = 0
    /\ sent' = << >>

ApiUrl == BASE_URL(req.etype, req.id)

\* --------------------------------------------------------- request_metadata
\* an entry type check that accepts every type
ValidEntryTypeAny(etype) == TRUE

\* assert entry_type in {"anime", "manga"}
ValidEntryType(etype) == etype \in EntryTypes

\* request_metadata(id_, entry_type, rerequest_failed=, force_rerequest=) up to
\* its first api_request, or to its end when it makes none
RequestMetadata(id, etype, rerequest_failed, force_rerequest) ==
    /\ pc = "idle"
    /\ nCalls < MaxCalls
    /\ nCalls' = nCalls + 1
    /\ prev' = [made |-> nCalls > 0, req |-> req, result |-> result,
                execCalls |-> execCalls, puts |-> puts]
    /\ req' = [id |-> id, etype |-> etype, rerequest_failed |-> rerequest_failed,
               force_rerequest |-> force_rerequest]
    /\ puts' = 0
    /\ store0' = store
    /\ UNCHANGED <<store, now>>
    /\ LET api_url == BASE_URL(etype, id)
           uurl == preprocess_url(api_url)
           mode == Mode(rerequest_failed, force_rerequest)
           hit == GetHits(store, uurl)
       IN  IF ~ValidEntryType(etype)
           THEN /\ pc' = "idle"
                /\ result' = [kind |-> "raise", error |-> "AssertionError"]
                /\ execCalls' = 0
                /\ UNCHANGED <<stack, outcome, attempts, execObs, n429, sent>>
           ELSE IF mode = "force" \/ ~hit
           THEN /\ pc' = IF mode = "force" THEN "refresh"
                         ELSE IF mode = "rerequest_failed" THEN "get_rf" ELSE "get"
                /\ result' = [kind |-> "none"]
                /\ execCalls' = 1
                /\ EnterApiRequest(uurl)
           ELSE IF mode = "rerequest_failed" /\ ShouldRerequest(store[uurl])
           THEN /\ pc' = "rerequest"
                /\ result' = [kind |-> "none"]
                /\ execCalls' = 0
                /\ UNCHANGED <<stack, outcome, attempts, execObs, n429, sent>>
           ELSE /\ pc' = "idle"
                /\ result' = [kind |-> "summary", summary |-> store[uurl]]
                /\ execCalls' = 0
                /\ UNCHANGED <<stack, outcome, attempts, execObs, n429, sent>>

\* return mcache.refresh_data(api_url) of the rerequest_failed branch
RerequestFailed ==
    /\ pc = "rerequest"
    /\ pc' = "refresh"
    /\ execCalls' = execCalls + 1
    /\ EnterApiRequest(preprocess_url(ApiUrl))
    /\ UNCHANGED <<store, now, req, result, nCalls, puts, prev, store0, batch>>

\* a Summary made for the URL the last physical request was sent to
SummaryUrlRequested(uurl, requested) == requested

\* Summary(url=uurl, ...): request_data's own uurl, which the url parameter
\* api_request rewrites for its recursive call does not touch
SummaryUrl(uurl, requested) == uurl

\* what follows the end of api_request in its caller: request_data builds the
\* Summary, get / refresh_data put it, request_metadata goes on to its return
\* or to the re-request of a failed entry
Finished(ended) ==
    /\ outcome' = ended
    /\ UNCHANGED <<req, nCalls, execCalls, prev, store0>>
    /\ IF pc = "exec"
       THEN /\ pc' = "idle"
            /\ UNCHANGED <<store, now, result, puts>>
       ELSE LET uurl == SummaryUrl(preprocess_url(ApiUrl), stack[Len(stack)].url)
                rd == request_data(uurl, ended, now)
            IN  IF rd.raised
                THEN /\ pc' = "idle"
                     /\ result' = [kind |-> "raise", error |-> "AttributeError"]
                     /\ UNCHANGED <<store, now, puts>>
                ELSE /\ store' = put(store, uurl, rd.summary)
                     /\ now' = now + 1
                     /\ puts' = puts + 1
                     /\ IF pc = "get_rf" /\ ShouldRerequest(rd.summary)
                        THEN /\ pc' = "rerequest"
                             /\ UNCHANGED result
                        ELSE /\ pc' = "idle"
                             /\ result' = [kind |-> "summary", summary |-> rd.summary]

\* number of alternative-titles recoveries among the invocations in progress
ChainAlts(stk) ==
    Cardinality({i \in 1..(Len(stk) - 1) : stk[i + 1].url # stk[i].url})

\* what one physical attempt did
Event(reply) ==
    LET top == stack[Len(stack)]
        eff == api_request(top.url, top.recursed_times, reply)
    IN  [branch |-> eff.branch, status |-> reply.status,
         recursed_times |-> top.recursed_times,
         alts |-> ChainAlts(stack), cooldown |-> eff.cooldown,
         hadAlt |-> HasAltTitles(top.url),
         stripped |-> (eff.branch # "alt" \/ eff.url = StripAltTitles(top.url))]

\* what the observers keep of one physical attempt
Observe(reply) ==
    LET top == stack[Len(stack)]
        eff == api_request(top.url, top.recursed_times, reply)
    IN  /\ trace' = IF trace.open /\ Len(trace.events) < TraceLen
                    THEN [trace EXCEPT !.events =
                            Append(@, [status |-> reply.status,
                                       json |-> reply.json,
                                       refreshed |-> eff.refresh])]
                    ELSE [open |-> FALSE, events |-> << >>]
        /\ run' = IF run.alike /\ (run.count = 0 \/ run.status = reply.status)
                  THEN [alike |-> TRUE, status |-> reply.status,
                        count |-> Min(run.count + 1, RunCap)]
                  ELSE [alike |-> FALSE, status |-> 0, count |-> 0]
        /\ nAlt' = IF eff.branch = "alt" THEN Min(nAlt + 1, AltCap) ELSE nAlt
        /\ last' = Event(reply)

\* one physical attempt: time.sleep(1), session.session.get(url), the status
\* branches of the body, and the decorator's handling of what the body raised
Attempt(reply) ==
    LET top == stack[Len(stack)]
        eff == api_request(top.url, top.recursed_times, reply)
        stk == IF eff.do = "recurse"
               THEN Append(stack, Frame(eff.url, eff.recursed_times))
               ELSE IF eff.do = "raise" THEN on_exception(stack)
               ELSE << >>
        ended == IF eff.do = "return"
                 THEN [kind |-> "json", json |-> eff.json]
                 ELSE [kind |-> "raise", ex |-> eff.ex]
    IN  /\ stack' = stk
        /\ IF stk = << >>
           THEN Finished(ended)
           ELSE UNCHANGED <<store, now, pc, req, outcome, result, nCalls,
                            callObs>>

\* a step of the api_request call made for request_metadata
ApiRequestStep ==
    /\ pc \in {"get_rf", "refresh", "get"}
    /\ stack # << >>
    /\ attempts < MaxAttempts
    /\ attempts' = attempts + 1
    /\ \E reply \in Replies(stack[Len(stack)].url) : Attempt(reply)
    /\ sent' = << stack[Len(stack)].url >>
    /\ UNCHANGED <<execObs, n429, batch>>

\* a step of an api_request call made on its own, observed
ApiRequestObserved ==
    /\ pc = "exec"
    /\ stack # << >>
    /\ \E reply \in Replies(stack[Len(stack)].url) :
         Attempt(reply) /\ Observe(reply)
    /\ UNCHANGED <<attempts, n429, sent, batch>>

\* a call of api_request on its own, with the canonical URL of an entry
ApiRequestCall ==
    /\ pc = "idle"
    /\ \E etype \in EntryTypes, id \in Ids :
         /\ req' = [id |-> id, etype |-> etype, rerequest_failed |-> FALSE,
                    force_rerequest |-> FALSE]
         /\ EnterApiRequest(preprocess_url(BASE_URL(etype, id)))
    /\ pc' = "exec"
    /\ UNCHANGED <<store, now, result, nCalls, callObs, batch>>

\* a step of an api_request call made on its own, its 429 answers counted
ApiRequestCounted ==
    /\ pc = "exec"
    /\ stack # << >>
    /\ \E reply \in Replies(stack[Len(stack)].url) :
         /\ Attempt(reply)
         /\ last' = Event(reply)
         /\ n429' = IF reply.status = 429 THEN Min(n429 + 1, RateCap) ELSE n429
    /\ UNCHANGED <<attempts, trace, run, nAlt, sent, batch>>

\* ---------------------------------------------------------- update_metadata
\* what read_linear_history() yields: entries with "entry_id" and "e_type"
Histories ==
    UNION {[1..n -> [entry_id : Ids, e_type : EntryTypes]] : n \in 0..MaxHistory}

\* unapproved.anime, unapproved.manga: lists of ids
IdLists == {<< >>} \cup {<< id >> : id \in Ids}

EntryRefs(idlist, etype) ==
    [i \in 1..Len(idlist) |-> [entry_id |-> idlist[i], e_type |-> etype]]

\* update_metadata(request_failed) entered: the entry references its three
\* loops will go through, in their order
UpdateMetadata(history, anime, manga, request_failed) ==
    /\ batch.state = "none"
    /\ pc = "idle"
    /\ nCalls = 0
    /\ batch' = [state |-> "running", request_failed |-> request_failed,
                 todo |-> history \o EntryRefs(anime, "anime")
                                  \o EntryRefs(manga, "manga")]
    /\ UNCHANGED <<progVars, callObs, execObs, n429, sent>>

\* one iteration of a loop of update_metadata, up to the first api_request of
\* its request_metadata call
BatchRequest ==
    /\ batch.state = "running"
    /\ batch.todo # << >>
    /\ result.kind # "raise"
    /\ LET hs == Head(batch.todo)
       IN  RequestMetadata(hs.entry_id, hs.e_type, batch.request_failed, FALSE)
    /\ batch' = [batch EXCEPT !.todo = Tail(@)]

\* an exception of request_metadata is caught nowhere in update_metadata: it
\* leaves the loop and the command
BatchRaise ==
    /\ batch.state = "running"
    /\ pc = "idle"
    /\ result.kind = "raise"
    /\ batch' = [batch EXCEPT !.state = "aborted"]
    /\ UNCHANGED <<progVars, callObs, execObs, n429, sent>>

\* the last loop of update_metadata is over
BatchReturn ==
    /\ batch.state = "running"
    /\ pc = "idle"
    /\ result.kind # "raise"
    /\ batch.todo = << >>
    /\ batch' = [batch EXCEPT !.state = "done"]
    /\ UNCHANGED <<progVars, callObs, execObs, n429, sent>>

Next ==
    \/ \E id \in Ids, etype \in InputTypes, rf \in BOOLEAN, fr \in BOOLEAN :
         RequestMetadata(id, etype, rf, fr) /\ UNCHANGED batch
    \/ RerequestFailed
    \/ ApiRequestStep

Spec == Init /\ [][Next]_vars

NextExec ==
    \/ ApiRequestCall
    \/ ApiRequestObserved

SpecExec == Init /\ [][NextExec]_vars

NextRate ==
    \/ ApiRequestCall
    \/ ApiRequestCounted

SpecRate == Init /\ [][NextRate]_vars

NextBatch ==
    \/ \E history \in Histories, anime \in IdLists, manga \in IdLists,
          request_failed \in BOOLEAN :
         UpdateMetadata(history, anime, manga, request_failed)
    \/ BatchRequest
    \/ BatchRaise
    \/ BatchReturn
    \/ RerequestFailed
    \/ ApiRequestStep

SpecBatch == Init /\ [][NextBatch]_vars


\* ===================================================================== claims
Uurl == preprocess_url(ApiUrl)
IsDefault(r) == ~r.rerequest_failed /\ ~r.force_rerequest
SameEntry(r1, r2) == r1.id = r2.id /\ r1.etype = r2.etype
Returned(r) == r.kind = "summary"

\* the current call is the second of two consecutive default-mode calls for
\* one entry reference
SecondDefaultCall ==
    /\ prev.made
    /\ req.etype \in EntryTypes
    /\ IsDefault(prev.req) /\ IsDefault(req)
    /\ SameEntry(prev.req, req)

ServedFromFirst ==
    /\ execCalls = 0
    /\ prev.execCalls <= 1
    /\ puts = 0
    /\ pc = "idle"
    /\ Returned(result) /\ Returned(prev.result)
    /\ result.summary = prev.result.summary
    /\ result.summary = store[Uurl]

\* C1 as stated: of two consecutive default-mode calls for an entry, whatever
\* the server and the network do, the second makes no api_request call, the two
\* together make at most one, and the second returns the first's Summary.
C1_AsStated == SecondDefaultCall => ServedFromFirst

\* C1 amended: of two consecutive default-mode calls for an entry, when the
\* first returned a Summary the second makes no api_request call, writes
\* nothing, and returns the Summary the first call returned and the store holds;
\* the two calls together make at most one api_request call.
C1_CacheIdempotence ==
    (SecondDefaultCall /\ Returned(prev.result)) => ServedFromFirst

C1_Witness ==
    /\ SecondDefaultCall
    /\ prev.execCalls = 1
    /\ Returned(prev.result)
    /\ pc = "idle"
    /\ Returned(result)

\* C2: a finished call with force_rerequest=true has called api_request, has
\* written the store, and the store holds what it returned, whatever
\* rerequest_failed is and whatever was cached.
C2_ForceAlwaysRequests ==
    (pc = "idle" /\ nCalls > 0 /\ req.force_rerequest /\ Returned(result))
        => /\ execCalls >= 1
           /\ puts >= 1
           /\ store[Uurl] = result.summary

\* the api_request call of the current request_metadata ended with HTTP status s
EndedWithStatus(s) ==
    /\ execCalls >= 1
    /\ outcome.kind = "raise"
    /\ outcome.ex.has_response
    /\ outcome.ex.status = s

\* C3: when api_request ends with a 404 answer, request_metadata stores and
\* returns a Summary whose metadata is exactly {"error": 404} and that has no
\* data; a rerequest_failed call (force_rerequest=false) that finds such a
\* Summary cached makes no api_request call and returns it.
C3_NotFoundSettled ==
    /\ (pc = "idle" /\ nCalls > 0 /\ EndedWithStatus(404))
         => /\ Returned(result)
            /\ result.summary.metadata = [error |-> 404]
            /\ DOMAIN result.summary.metadata = {"error"}
            /\ ~has_data(result.summary)
            /\ store[Uurl] = result.summary
    /\ (/\ req.rerequest_failed /\ ~req.force_rerequest
        /\ req.etype \in EntryTypes
        /\ in_cache(store0, Uurl)
        /\ store0[Uurl].metadata = [error |-> 404])
         => /\ execCalls = 0
            /\ pc = "idle"
            /\ puts = 0
            /\ Returned(result)
            /\ result.summary = store0[Uurl]

C3_Witness ==
    /\ req.rerequest_failed /\ ~req.force_rerequest
    /\ prev.made /\ prev.execCalls = 1 /\ Returned(prev.result)
    /\ prev.result.summary.metadata = [error |-> 404]
    /\ SameEntry(prev.req, req)
    /\ pc = "idle" /\ Returned(result)
    /\ result.summary.metadata = [error |-> 404]

\* the refresh_data of the rerequest_failed branch is about to run or running
Refetching == req.rerequest_failed /\ pc \in {"rerequest", "refresh"}

\* C4 as stated: what a rerequest_failed call re-fetches carries no error key
\* (of any status code) and does not have both id and title.
C4_AsStated ==
    Refetching =>
        LET m == store[Uurl].metadata
        IN  /\ "error" \notin DOMAIN m
            /\ ~({"id", "title"} \subseteq DOMAIN m)

\* C4 amended: what a rerequest_failed call re-fetches lacks id or title and
\* is not a 404 marker: no Summary with error 404 and no Summary with both id
\* and title is re-fetched (one with another error status is).
C4_RefetchOnlyFailed ==
    Refetching =>
        LET m == store[Uurl].metadata
        IN  /\ ~({"id", "title"} \subseteq DOMAIN m)
            /\ ~("error" \in DOMAIN m /\ m["error"] = 404)

C4_Witness ==
    /\ Refetching
    /\ pc = "refresh"
    /\ attempts >= 1
    /\ store[Uurl].metadata = [error |-> 401]

\* the rerequest_failed call in progress or last made found the entry cached
RerequestOfCached ==
    /\ req.rerequest_failed /\ ~req.force_rerequest
    /\ req.etype \in EntryTypes
    /\ nCalls > 0
    /\ in_cache(store0, Uurl)

Settled(m) ==
    \/ {"id", "title"} \subseteq DOMAIN m
    \/ m = [error |-> 404]

\* the store is store0 but for the entry of the current call
OnlyOwnKeyWritten ==
    /\ DOMAIN store = DOMAIN store0
    /\ \A u \in DOMAIN store0 : u # Uurl => store[u] = store0[u]

\* a finished call persisted and returned what its api_request call produced
FreshPersisted ==
    /\ execCalls = 1
    /\ puts = 1
    /\ Returned(result)
    /\ result.summary = store[Uurl]
    /\ result.summary.url = Uurl
    /\ result.summary.metadata =
         (IF outcome.kind = "json" THEN outcome.json
          ELSE [error |-> outcome.ex.status])
    /\ OnlyOwnKeyWritten

CachedReturned ==
    /\ execCalls = 0
    /\ puts = 0
    /\ pc = "idle"
    /\ store = store0
    /\ Returned(result)
    /\ result.summary = store0[Uurl]

\* C5 as stated: a rerequest_failed call (force_rerequest=false) returns a
\* cached successful or not-found Summary unchanged, with no api_request call
\* and no write; for any other cached Summary it calls api_request again,
\* persists the outcome under the same URL and returns that Summary.
C5_AsStated ==
    RerequestOfCached =>
        IF Settled(store0[Uurl].metadata)
        THEN CachedReturned
        ELSE /\ execCalls <= 1
             /\ (pc = "idle" => FreshPersisted)

\* C5 amended: as stated, except that when the api_request call of the
\* re-request ends with a connection-level exception (no HTTP response)
\* request_metadata raises and leaves the store as it was.
C5_DecisionTable ==
    RerequestOfCached =>
        IF Settled(store0[Uurl].metadata)
        THEN CachedReturned
        ELSE /\ execCalls <= 1
             /\ (pc = "idle" =>
                   IF outcome.kind = "raise" /\ ~outcome.ex.has_response
                   THEN /\ result = [kind |-> "raise", error |-> "AttributeError"]
                        /\ store = store0
                        /\ execCalls = 1
                   ELSE FreshPersisted)

C5_Witness ==
    /\ RerequestOfCached
    /\ store0[Uurl].metadata = [error |-> 401]
    /\ pc = "idle"
    /\ Returned(result)
    /\ result.summary.metadata = [id |-> req.id, title |-> "X"]
    /\ store[Uurl] = result.summary


\* ------------------------------------------------- claims about api_request
Statuses(events) == [i \in 1..Len(events) |-> events[i].status]
Refreshes(events) == Cardinality({i \in 1..Len(events) : events[i].refreshed})

\* C6: when the first physical request of an api_request call is answered 401
\* and the next 200, refresh_token is called exactly once, it has been called
\* when the request is re-issued (the call is then still in progress), and the
\* call returns the decoded body of the 200 answer.
C6_RefreshThenBody ==
    /\ (trace.open /\ Statuses(trace.events) = <<401>>)
         => /\ Refreshes(trace.events) = 1
            /\ stack # << >>
            /\ pc = "exec"
    /\ (trace.open /\ Statuses(trace.events) = <<401, 200>>)
         => /\ Refreshes(trace.events) = 1
            /\ trace.events[1].refreshed
            /\ stack = << >>
            /\ pc = "idle"
            /\ outcome.kind = "json"
            /\ outcome.json = trace.events[2].json

C6_Witness ==
    /\ trace.open
    /\ Statuses(trace.events) = <<401, 200>>
    /\ outcome.kind = "json"
    /\ outcome.json = [id |-> req.id, title |-> "X"]

\* C7: within one api_request call, whatever the server answers, the
\* alternative-titles recovery is made at most 3 times, and each recovery
\* requests the URL with exactly the alternative_titles segment removed.
C7_AltRecoveryBounded ==
    /\ nAlt <= AltTitlesLimit + 1
    /\ last.stripped

GenericStatus(e) ==
    /\ e.status >= 400
    /\ e.status \notin {401, 404, 429}
    /\ ~(e.status = 400 /\ e.hadAlt)

\* C8: the two retry counters of one api_request call are independent: a 400
\* answer to a URL with the alternative_titles field is refused its recovery
\* only after 3 recoveries, a generic error is refused its retry only after 5
\* generic retries, and a 400 (alternative titles) followed by a 500 is retried.
C8_CountersIndependent ==
    /\ (last.branch = "raise" /\ last.status = 400 /\ last.hadAlt)
         => last.alts > AltTitlesLimit
    /\ (last.branch = "raise" /\ GenericStatus(last))
         => last.recursed_times - last.alts >= GenericLimit
    /\ (trace.open /\ Statuses(trace.events) = <<400, 500>>)
         => last.branch = "generic"

\* C9: within one api_request call a generic error is retried, after a 60 unit
\* cooldown, only while fewer than 5 generic retries were made; after 5 the
\* error ends the call, so a server that always answers 500 gets at most 6
\* physical requests from one call.
C9_GenericRetryBounded ==
    /\ last.branch = "generic"
         => /\ last.cooldown = Cooldown
            /\ last.recursed_times < GenericLimit
    /\ (last.branch = "raise" /\ GenericStatus(last)
        /\ last.recursed_times >= GenericLimit)
         => /\ stack = << >>
            /\ outcome.kind = "raise"
    /\ (run.alike /\ run.status = 500) => run.count <= GenericLimit + 1

\* C10: a 404 answer ends the api_request call: no further physical request is
\* made for it and the HTTP error reaches the caller.
C10_NotFoundTerminal ==
    (pc \in {"exec", "idle"} /\ last.branch # "none" /\ last.status = 404)
        => /\ stack = << >>
           /\ pc = "idle"
           /\ outcome.kind = "raise"
           /\ outcome.ex = HTTPError(404)


\* the api_request call of the current request_metadata ended with a
\* connection-level exception, the tries of its first invocation used up
EndedWithoutResponse ==
    /\ nCalls > 0
    /\ execCalls >= 1
    /\ pc = "idle"
    /\ outcome.kind = "raise"
    /\ ~outcome.ex.has_response

FailedHard == result = [kind |-> "raise", error |-> "AttributeError"]

\* the store is store0 with one Summary more, under the canonical URL of the
\* current call
OwnKeyAdded ==
    /\ DOMAIN store = DOMAIN store0 \cup {Uurl}
    /\ \A u \in DOMAIN store0 : store[u] = store0[u]

\* C11 as stated: when the api_request call of a request_metadata ends with a
\* connection-level exception, request_metadata fails hard and the store is
\* exactly what it was before the request_metadata call, whatever the mode.
C11_AsStated ==
    EndedWithoutResponse => (FailedHard /\ store = store0 /\ puts = 0)

\* C11 amended: when the api_request call of a request_metadata ends with a
\* connection-level exception, request_metadata fails hard and that api_request
\* call writes nothing; the store is what it was before the request_metadata
\* call, but for a rerequest_failed call that found no entry: there the first
\* api_request call's Summary (an error other than 404, or a body without id
\* or title) was persisted under the canonical URL before the re-request failed.
C11_HardFailureWritesNothing ==
    EndedWithoutResponse =>
        /\ FailedHard
        /\ \/ puts = 0 /\ store = store0 /\ execCalls = 1
           \/ /\ puts = 1 /\ execCalls = 2
              /\ req.rerequest_failed
              /\ ~in_cache(store0, Uurl)
              /\ OwnKeyAdded
              /\ ~Settled(store[Uurl].metadata)

C11_Witness ==
    /\ EndedWithoutResponse
    /\ FailedHard
    /\ req.force_rerequest /\ ~req.rerequest_failed
    /\ in_cache(store0, Uurl)
    /\ store = store0


\* C12: a 429 answer is followed by the 60-unit cooldown and a raise, with no
\* recursion of the body; within one api_request call at most 3 physical
\* requests are answered 429, and after the third the call has ended with that
\* error.
C12_RateLimitBounded ==
    /\ last.status = 429 => (last.branch = "raise" /\ last.cooldown = Cooldown)
    /\ n429 <= MaxTries
    /\ (n429 = MaxTries /\ last.status = 429)
         => (pc = "idle" /\ outcome = [kind |-> "raise", ex |-> HTTPError(429)])


\* every physical request of the api_request call so far failed at connection
\* level
OnlyConnectionFailures == run.alike /\ run.count >= 1 /\ run.status = 0

\* the branch the body of api_request takes on a status at recursed_times 0
\* with the canonical URL
InnerBranch(status) ==
    IF status = 400 THEN "alt"
    ELSE IF status = 500 THEN "generic"
    ELSE IF status = 200 THEN "return"
    ELSE "raise"

\* C13: a connection-level failure is retried by the decorator up to 3 tries of
\* the invocation: while every physical request has failed at connection level
\* the call is still running below 3 requests and has ended with the
\* connection-level exception at exactly 3; when a request after a failed one
\* gets an HTTP response, the status branches of the body apply to it.
C13_ConnectionRetried ==
    /\ OnlyConnectionFailures =>
         /\ run.count <= MaxTries
         /\ run.count < MaxTries =>
              /\ pc = "exec"
              /\ Len(stack) = 1
              /\ stack[1].tries = run.count + 1
              /\ stack[1].recursed_times = 0
         /\ run.count = MaxTries =>
              /\ pc = "idle"
              /\ outcome = [kind |-> "raise", ex |-> ConnectionError]
    /\ (trace.open /\ Len(trace.events) = 2
        /\ trace.events[1].status = 0 /\ trace.events[2].status # 0) =>
         LET e == trace.events[2]
         IN  /\ last.status = e.status
             /\ last.branch = InnerBranch(e.status)
             /\ e.refreshed = (e.status = 401)
             /\ e.status = 200 =>
                  (pc = "idle" /\ outcome = [kind |-> "json", json |-> e.json])

C13_Witness ==
    /\ OnlyConnectionFailures
    /\ run.count = MaxTries
    /\ pc = "idle"
    /\ outcome = [kind |-> "raise", ex |-> ConnectionError]


\* the call in progress or last made was given an entry type other than
\* "anime" and "manga"
InvalidTypeCall == nCalls > 0 /\ req.etype \notin EntryTypes

\* C14: request_metadata called with an entry type outside {anime, manga}
\* fails with the AssertionError at once: no api_request call is made, so no
\* request is sent and no token refreshed, and the store is unchanged.
C14_TypeValidation ==
    InvalidTypeCall =>
        /\ pc = "idle"
        /\ result = [kind |-> "raise", error |-> "AssertionError"]
        /\ execCalls = 0
        /\ puts = 0
        /\ store = store0
        /\ stack = << >>
        /\ BASE_URL(req.etype, req.id) \notin DOMAIN store

C14_Witness ==
    /\ InvalidTypeCall
    /\ result = [kind |-> "raise", error |-> "AssertionError"]
    /\ prev.made
    /\ store0 # << >>
    /\ store = store0


\* the Summary stored under the canonical URL of the current call is the error
\* marker of status s, without data
ErrorStored(s) ==
    /\ in_cache(store, Uurl)
    /\ store[Uurl].url = Uurl
    /\ store[Uurl].data = << >>
    /\ store[Uurl].metadata = [error |-> s]

\* a default-mode call for an entry whose stored Summary is an error marker
DefaultCallOnError ==
    /\ nCalls > 0
    /\ IsDefault(req)
    /\ req.etype \in EntryTypes
    /\ in_cache(store0, Uurl)
    /\ "error" \in DOMAIN store0[Uurl].metadata

\* C15 as stated: when an api_request call ends with an HTTP error of status s,
\* request_metadata returns, and what it returns is the stored Summary without
\* data whose metadata is {"error": s}; a later default-mode call returns that
\* Summary with no api_request call.
C15_AsStated ==
    /\ \A s \in ErrorStatuses :
         EndedWithStatus(s) =>
            /\ ErrorStored(s)
            /\ pc = "idle"
            /\ Returned(result)
            /\ result.summary = store[Uurl]
    /\ DefaultCallOnError => CachedReturned

\* C15 amended: when an api_request call ends with an HTTP error of status s,
\* the Summary without data and with metadata {"error": s} is stored under the
\* canonical URL, and request_metadata returns it, unless the call is a
\* rerequest_failed call that found no entry and s is not 404: that call goes
\* on to a second api_request call and ends with its outcome. A later
\* default-mode call returns the stored error Summary with no api_request call.
C15_ErrorPersisted ==
    /\ \A s \in ErrorStatuses :
         EndedWithStatus(s) =>
            /\ ErrorStored(s)
            /\ puts >= 1
            /\ pc = "idle" => (Returned(result) /\ result.summary = store[Uurl])
            /\ pc # "idle" =>
                 /\ pc = "rerequest"
                 /\ execCalls = 1
                 /\ req.rerequest_failed
                 /\ ~in_cache(store0, Uurl)
                 /\ s # 404
    /\ DefaultCallOnError => CachedReturned

C15_Witness ==
    /\ DefaultCallOnError
    /\ CachedReturned
    /\ prev.execCalls = 1
    /\ SameEntry(prev.req, req)
    /\ prev.result = result
    /\ result.summary.metadata = [error |-> 429]


\* the call in progress or last made found a stored Summary it returns as it
\* is: default mode with an entry, rerequest_failed mode with a successful or
\* not-found entry
CacheHitCall ==
    /\ nCalls > 0
    /\ req.etype \in EntryTypes
    /\ in_cache(store0, Uurl)
    /\ \/ IsDefault(req)
       \/ req.rerequest_failed /\ Settled(store0[Uurl].metadata)

\* the call in progress or last made refreshes: force_rerequest alone, or
\* rerequest_failed on an entry that is neither successful nor not-found
RefreshCall ==
    /\ req.etype \in EntryTypes
    /\ \/ req.force_rerequest /\ ~req.rerequest_failed
       \/ /\ req.rerequest_failed
          /\ in_cache(store0, Uurl) => ~Settled(store0[Uurl].metadata)

\* C16: a call that returns an already stored Summary makes no api_request
\* call and leaves the store as it was, timestamps and metadata included; a
\* Summary stored before a call differs after it only under the call's own
\* canonical URL, only in a refreshing call that has put an outcome of
\* api_request, and then it carries a later timestamp.
C16_HitNeverWrites ==
    /\ CacheHitCall =>
         /\ pc = "idle"
         /\ execCalls = 0
         /\ puts = 0
         /\ store = store0
         /\ Returned(result)
         /\ result.summary = store0[Uurl]
    /\ \A u \in DOMAIN store0 :
         /\ u \in DOMAIN store
         /\ store[u] # store0[u] =>
              /\ u = Uurl
              /\ RefreshCall
              /\ puts >= 1
              /\ execCalls >= 1
              /\ store[u].timestamp > store0[u].timestamp

C16_Witness ==
    /\ CacheHitCall
    /\ req.rerequest_failed
    /\ store0[Uurl].metadata = [error |-> 404]
    /\ store = store0
    /\ result.summary = store0[Uurl]


\* the most physical requests an invocation entered with recursed_times = k
\* can make: 3 tries, each one request and at most one recursive invocation
RECURSIVE MaxRequests(_)
MaxRequests(k) ==
    IF k >= GenericLimit THEN MaxTries
    ELSE MaxTries * (1 + MaxRequests(k + 1))

\* the most requests one try of an invocation at recursed_times = k can make
PerTry(k) == IF k >= GenericLimit THEN 1 ELSE 1 + MaxRequests(k + 1)

\* the requests the invocations in progress can still make: the top one has
\* its current try ahead of it, the others are inside theirs
RECURSIVE TriesAhead(_, _)
TriesAhead(stk, i) ==
    IF i = 0 THEN 0
    ELSE LET f == stk[i]
             tries == IF i = Len(stk) THEN MaxTries - f.tries + 1
                      ELSE MaxTries - f.tries
         IN  tries * PerTry(f.recursed_times) + TriesAhead(stk, i - 1)

Rank(stk) == TriesAhead(stk, Len(stk))

\* C17: every api_request call terminates: the number of physical requests the
\* invocations in progress can still make is a natural number, at most 1092
\* when the call starts, and every physical request of the call, whatever the
\* server answers or the network does, makes it smaller; so a call makes at
\* most 1092 requests, and at most that many token refreshes, before it
\* returns a body or raises.
C17_Terminates ==
    /\ [](Rank(stack) \in 0..MaxRequests(0))
    /\ [][(pc = "exec" /\ stack # << >>) =>
             /\ Rank(stack') < Rank(stack)
             /\ stack' = << >> => (pc' = "idle" /\ outcome'.kind \in {"json", "raise"})]_vars

C17_Witness ==
    /\ pc = "idle"
    /\ nAlt >= 1
    /\ last.status = 401
    /\ outcome = [kind |-> "raise", ex |-> HTTPError(401)]


\* the api_request call of the finished request_metadata returned a body, and
\* the request that got it was sent to the URL without alternative_titles
StrippedSuccess ==
    /\ nCalls > 0
    /\ execCalls >= 1
    /\ pc = "idle"
    /\ outcome.kind = "json"
    /\ sent = << StripAltTitles(Uurl) >>

CanonicalUrls ==
    {preprocess_url(BASE_URL(etype, id)) : etype \in EntryTypes, id \in Ids}

\* C18: the store is keyed by canonical URLs only, and every Summary carries
\* the key it is stored under; when api_request succeeds on the URL without
\* alternative_titles, the Summary returned is stored under the canonical URL,
\* which still names alternative_titles, and carries that URL, and nothing is
\* stored under the stripped URL; a default-mode call that follows a call that
\* returned a Summary for the same entry is a hit: no api_request call, the
\* same Summary.
C18_CanonicalKey ==
    /\ \A u \in DOMAIN store : u \in CanonicalUrls /\ store[u].url = u
    /\ StrippedSuccess =>
         /\ StripAltTitles(Uurl) # Uurl
         /\ StripAltTitles(Uurl) \notin DOMAIN store
         /\ Returned(result)
         /\ result.summary.url = Uurl
         /\ result.summary.metadata = outcome.json
         /\ store[Uurl] = result.summary
    /\ (prev.made /\ Returned(prev.result) /\ SameEntry(prev.req, req)
        /\ IsDefault(req)) =>
         (CachedReturned /\ result.summary = prev.result.summary)

C18_Witness ==
    /\ prev.made
    /\ prev.execCalls = 1
    /\ SameEntry(prev.req, req)
    /\ IsDefault(req)
    /\ CachedReturned
    /\ outcome.kind = "json"
    /\ sent = << StripAltTitles(Uurl) >>
    /\ result.summary.url = Uurl
    /\ result.summary.metadata = outcome.json


\* C19 as stated: a request_metadata call makes at most one api_request call
\* and at most one write of the store, in every mode and cache state.
C19_AsStated == execCalls <= 1 /\ puts <= 1

\* C19 amended: a request_metadata call makes at most two api_request calls
\* and at most two writes of the store, and never more writes than api_request
\* calls; it makes a second api_request call only in rerequest_failed mode
\* with no entry cached before the call, after the first call's outcome was
\* stored and is neither successful nor a 404.
C19_AtMostTwice ==
    /\ execCalls <= 2
    /\ puts <= execCalls
    /\ execCalls = 2 =>
         /\ req.rerequest_failed
         /\ ~in_cache(store0, Uurl)
         /\ puts >= 1
         /\ pc = "refresh" =>
              /\ puts = 1
              /\ OwnKeyAdded
              /\ ~Settled(store[Uurl].metadata)

C19_Witness ==
    /\ execCalls = 2
    /\ puts = 2
    /\ pc = "idle"
    /\ Returned(result)
    /\ store[Uurl] = result.summary


\* C20: a hard failure of request_metadata for one entry does not abort
\* update_metadata: the command never ends on an exception with entry
\* references left that it has not passed to request_metadata.
C20_BatchNotAborted ==
    batch.state = "aborted" => batch.todo = << >>

====
